---- MODULE Spec2Model ----
(***************************************************************************)
(* Model of the personalized news endpoint of insightflo-api:              *)
(*   src/app/api/news/personalized/route.ts  (personalizedNewsHandler)     *)
(*   src/utils/cache.ts                      (the in-memory Map cache)     *)
(*   src/utils/errors.ts                     (validation, error wrapper)   *)
(*   src/unnamed/part_006                    (utils/personalization)       *)
(*   src/unnamed/part_004                    (utils/database accessors)    *)
(*                                                                         *)
(* Conventions.  Fractional quantities (sentiment, relevance score,        *)
(* minSentiment) are fixed-point hundredths: 0.7 is 70.  Timestamps and    *)
(* ages are whole hours.  A JavaScript number that may be NaN is a record  *)
(* [nan, v]; a value that may be undefined is None or Some(x).             *)
(***************************************************************************)
EXTENDS Integers, Sequences, FiniteSets, TLC

VARIABLES
    cache,      \* utils/cache.ts: the module-level Map, key string -> value
    heap,       \* article arrays by reference (an array is shared by alias)
    pc,         \* per request slot: where the handler is suspended
    loc,        \* per request slot: the handler's local variables
    now,        \* the clock, in hours
    newsTable,  \* the news_articles table of the backing store
    storeErrors,\* number of store queries that have failed so far
    lastSet,    \* ghost: <<accessor kind, argument>> -> value of the last set
    lastOp,     \* the last direct cache call and what it returned
    rk,         \* inputs and outputs of direct rankAndFilterArticles calls
    kw          \* api/keywords: the user_interests rows and the POST requests

vars == <<cache, heap, pc, loc, now, newsTable, storeErrors, lastSet, lastOp, rk, kw>>

----------------------------------------------------------------------------
(* Bounds of the model *)

MaxStoreErrors == 1
MaxNow == 1
MaxRankLen == 2

Reqs == {1, 2}

----------------------------------------------------------------------------
(* JavaScript values *)

None == [some |-> FALSE]
Some(x) == [some |-> TRUE, val |-> x]

NaN == [nan |-> TRUE, v |-> 0]
Num(n) == [nan |-> FALSE, v |-> n]

Min(a, b) == IF a <= b THEN a ELSE b
Max(a, b) == IF a >= b THEN a ELSE b

\* Math.max / Math.min: NaN if either argument is NaN
MathMax(a, b) == IF a.nan \/ b.nan THEN NaN ELSE Num(Max(a.v, b.v))
MathMin(a, b) == IF a.nan \/ b.nan THEN NaN ELSE Num(Min(a.v, b.v))

\* a * b, a + b, a - b, a < b on numbers: NaN propagates, a comparison with NaN is false
JsMul(a, b) == IF a.nan \/ b.nan THEN NaN ELSE Num(a.v * b.v)
JsAdd(a, b) == IF a.nan \/ b.nan THEN NaN ELSE Num(a.v + b.v)
JsSub(a, b) == IF a.nan \/ b.nan THEN NaN ELSE Num(a.v - b.v)
JsLt(a, b) == ~a.nan /\ ~b.nan /\ a.v < b.v
JsGe(a, b) == ~a.nan /\ ~b.nan /\ a.v >= b.v

\* A raw query-string parameter: absent, the empty string, a decimal number
\* (h in hundredths, so "2" is 200 and "0.5" is 50) or text that is no number.
RawAbsent == [k |-> "absent", h |-> 0]
RawEmpty == [k |-> "empty", h |-> 0]
RawText == [k |-> "text", h |-> 0]
RawNum(h) == [k |-> "num", h |-> h]

\* searchParams.get(name): null when absent; a string is truthy unless empty
IsFalsy(raw) == raw.k \in {"absent", "empty"}

\* integer division truncating toward zero
TruncDiv(a, b) == IF a >= 0 THEN a \div b ELSE -((-a) \div b)

\* parseInt(string): the leading integer part, NaN when there is none
ParseInt(raw) == IF raw.k = "num" THEN Num(TruncDiv(raw.h, 100)) ELSE NaN

\* parseFloat(string), in hundredths
ParseFloat(raw) == IF raw.k = "num" THEN Num(raw.h) ELSE NaN

----------------------------------------------------------------------------
(* utils/errors.ts *)

DefaultPage == 1
DefaultLimit == 20
MaxLimit == 100

validatePagination(rawPage, rawLimit) ==
    [page  |-> MathMax(Num(1),
                       ParseInt(IF IsFalsy(rawPage) THEN RawNum(DefaultPage * 100) ELSE rawPage)),
     limit |-> MathMax(Num(1), MathMin(Num(MaxLimit),
                       ParseInt(IF IsFalsy(rawLimit) THEN RawNum(DefaultLimit * 100) ELSE rawLimit)))]

\* withErrorHandling: the status derived from the thrown error's message
MsgMethod == "Method not allowed"
MsgAuthHeader == "Missing or invalid Authorization header. Please provide a valid Bearer token."
MsgVerify == "Token verification failed"
MsgNoUser == "Invalid token or user not found"
MsgMinSentiment == "Invalid minSentiment parameter: must be a number between -1 and 1"
MsgMaxAge == "Invalid maxAge parameter: must be a number between 1 and 720"
MsgLoad == "Failed to load required user data"

MsgUnexpected == "An unexpected error occurred"

\* error.message.includes('Authorization'), over the messages the handler throws
IncludesAuthorization(message) == message = MsgAuthHeader

StatusOf(message) ==
    IF IncludesAuthorization(message) THEN 401 ELSE 500

\* the message of the error response: the thrown message is passed on only
\* on the 401 branch
ResponseMessage(message) ==
    IF IncludesAuthorization(message) THEN message ELSE MsgUnexpected

----------------------------------------------------------------------------
(* The backing store (Supabase tables), external to the repository.  Rows  *)
(* carry only the columns the handler reads.                               *)

Users == {"u1", "u2"}

user_interests ==
    [u \in Users |->
        IF u = "u1"
        THEN <<[user_id |-> "u1", interest_category |-> "tech", priority_level |-> 5]>>
        ELSE <<[user_id |-> "u2", interest_category |-> "energy", priority_level |-> 3]>>]

user_portfolio ==
    [u \in Users |->
        IF u = "u1"
        THEN <<[user_id |-> "u1", stock_code |-> "AAPL", weight |-> 50]>>
        ELSE <<>>]

user_news_history ==
    [u \in Users |->
        IF u = "u1"
        THEN <<[user_id |-> "u1", article_id |-> "a1", is_read |-> TRUE]>>
        ELSE <<[user_id |-> "u2", article_id |-> "a3", is_read |-> FALSE]>>]

user_bookmarks == [u \in Users |-> IF u = "u1" THEN {"a1"} ELSE {}]

NewsRow(id, published_at, sentiment, is_active) ==
    [id |-> id, published_at |-> published_at, sentiment |-> sentiment, is_active |-> is_active]

\* the hour at which the first request can arrive
StartHour == 5

----------------------------------------------------------------------------
(* Sequences *)

Range(s) == { s[i] : i \in 1..Len(s) }

\* all orderings of a finite set
Perms(S) ==
    { s \in [1..Cardinality(S) -> S] : \A i, j \in 1..Cardinality(S) : i # j => s[i] # s[j] }

\* Array.prototype.filter
FilterSeq(s, P(_)) ==
    LET f[i \in 0..Len(s)] ==
            IF i = 0 THEN <<>>
            ELSE IF P(s[i]) THEN Append(f[i-1], s[i]) ELSE f[i-1]
    IN f[Len(s)]

\* Array.prototype.sort with the comparator (a, b) => K(b) - K(a): descending
\* by K, and stable, so elements with equal K keep their input order.
InsertDesc(sorted, x, K(_)) ==
    LET pos == Cardinality({ i \in 1..Len(sorted) : K(sorted[i]) >= K(x) })
    IN SubSeq(sorted, 1, pos) \o <<x>> \o SubSeq(sorted, pos + 1, Len(sorted))

StableSortDesc(s, K(_)) ==
    LET f[i \in 0..Len(s)] ==
            IF i = 0 THEN <<>> ELSE InsertDesc(f[i-1], s[i], K)
    IN f[Len(s)]

\* Array.prototype.slice(start, end): NaN counts as 0, indexes are clamped
SliceIndex(x, len) ==
    IF x.nan THEN 0
    ELSE IF x.v < 0 THEN Max(len + x.v, 0) ELSE Min(x.v, len)

\* mutant of Slice: the start index is not applied
SliceIgnoresStart(s, start, end) == SubSeq(s, 1, SliceIndex(end, Len(s)))

Slice(s, start, end) ==
    SubSeq(s, SliceIndex(start, Len(s)) + 1, SliceIndex(end, Len(s)))

----------------------------------------------------------------------------
(* utils/database (src/unnamed/part_004) *)

mapSentimentToScore(sentiment) ==
    CASE sentiment = "positive" -> 70
      [] sentiment = "negative" -> -30
      [] OTHER -> 0

transformSupabaseToFlutter(row) ==
    [id |-> row.id,
     published_at |-> row.published_at,
     sentiment_score |-> mapSentimentToScore(row.sentiment),
     sentiment_label |-> row.sentiment,
     relevance_score |-> None]

PublishedAt(a) == a.published_at

\* .order('published_at', { ascending: false }): the orders the store can
\* return the rows in; rows of equal published_at come in any order
RECURSIVE OrderedByPublishedAt(_)
OrderedByPublishedAt(rows) ==
    IF rows = {} THEN { <<>> }
    ELSE LET first == { x \in rows : \A y \in rows : x.published_at >= y.published_at }
         IN UNION { { <<x>> \o s : s \in OrderedByPublishedAt(rows \ {x}) } : x \in first }

\* The rows the news_articles query can return: active rows not older than
\* the cutoff, ordered by published_at descending (rows with equal
\* published_at in an order the database chooses), cut to the range
\* 0..limit-1.  The store's answer to a NaN range is not defined by the
\* repository: any prefix may come back.
QueryNewsArticles(news_articles, filters, cutoff) ==
    LET hit == { row \in news_articles :
                    /\ row.is_active
                    /\ (~filters.maxAge.nan /\ filters.maxAge.v # 0) => row.published_at >= cutoff }
        ordered == OrderedByPublishedAt(hit)
    IN IF filters.limit.nan
       THEN { SubSeq(s, 1, n) : s \in ordered, n \in 0..Cardinality(hit) }
       ELSE { SubSeq(s, 1, Min(Max(filters.limit.v, 0), Len(s))) : s \in ordered }

\* cutoffDate of fetchNewsArticles, computed when the fetch is issued
CutoffDate(filters, clock) ==
    IF filters.maxAge.nan THEN 0 ELSE clock - filters.maxAge.v

\* fetchNewsArticles: the arrays it can return.  ok = FALSE is a store error.
fetchNewsArticles(news_articles, filters, cutoff, ok) ==
    IF ~ok THEN { <<>> }
    ELSE { LET transformed == [i \in 1..Len(rows) |-> transformSupabaseToFlutter(rows[i])]
               Keep(a) == JsGe(Num(a.sentiment_score), filters.minSentiment.val)
           IN IF filters.minSentiment.some
              THEN FilterSeq(transformed, Keep)
              ELSE transformed
           : rows \in QueryNewsArticles(news_articles, filters, cutoff) }

\* mutant of fetchUserInterests: the error of the store is not looked at
fetchUserInterestsUnchecked(userId, ok) == user_interests[userId]

fetchUserInterests(userId, ok) == IF ok THEN user_interests[userId] ELSE <<>>

fetchUserPortfolio(userId, ok) == IF ok THEN user_portfolio[userId] ELSE <<>>

fetchUserNewsHistory(userId, ok) == IF ok THEN user_news_history[userId] ELSE <<>>

fetchUserBookmarks(userId, articleIds, ok) ==
    IF articleIds = <<>> \/ ~ok THEN {}
    ELSE user_bookmarks[userId] \cap Range(articleIds)

----------------------------------------------------------------------------
(* utils/cache.ts *)

CacheGet(c, key) == IF key \in DOMAIN c THEN Some(c[key]) ELSE None

\* mutant of CacheSet: a new key is refused once the cache holds 1000 entries
CacheSetBounded(c, key, value) ==
    IF key \notin DOMAIN c /\ Cardinality(DOMAIN c) >= 1000
    THEN c
    ELSE [k \in DOMAIN c \cup {key} |-> IF k = key THEN value ELSE c[k]]

CacheSet(c, key, value) ==
    [k \in DOMAIN c \cup {key} |-> IF k = key THEN value ELSE c[k]]

\* JSON.stringify of a number: NaN is written null; hundredths as a decimal
JsonInt(x) == IF x.nan THEN "null" ELSE ToString(x.v)

JsonHundredths(x) ==
    LET a == IF x.v < 0 THEN -x.v ELSE x.v
        frac == a % 100
    IN IF x.nan THEN "null"
       ELSE (IF x.v < 0 THEN "-" ELSE "")
            \o ToString(a \div 100)
            \o (IF frac = 0 THEN ""
                ELSE IF frac % 10 = 0 THEN "." \o ToString(frac \div 10)
                ELSE IF frac < 10 THEN ".0" \o ToString(frac)
                ELSE "." \o ToString(frac))

\* mutant of JSONstringify: minSentiment is not serialized
JSONstringifyTwoFields(filters) ==
    "{\"limit\":" \o JsonInt(filters.limit)
    \o ",\"maxAge\":" \o JsonInt(filters.maxAge)
    \o "}"

\* JSON.stringify({limit, maxAge, minSentiment}): an undefined property is left out
JSONstringify(filters) ==
    "{\"limit\":" \o JsonInt(filters.limit)
    \o ",\"maxAge\":" \o JsonInt(filters.maxAge)
    \o (IF filters.minSentiment.some
        THEN ",\"minSentiment\":" \o JsonHundredths(filters.minSentiment.val)
        ELSE "")
    \o "}"

\* mutant of InterestsKey: one key for the interests of every user
InterestsKeyShared(userId) == "interests_"

InterestsKey(userId) == "interests_" \o userId
PortfolioKey(userId) == "portfolio_" \o userId
ArticlesKey(filters) == "articles_" \o JSONstringify(filters)

\* mutant of cacheUserInterests: an entry already present is not overwritten
cacheUserInterestsKeepFirst(c, userId, data) ==
    IF InterestsKey(userId) \in DOMAIN c THEN c ELSE CacheSet(c, InterestsKey(userId), data)

\* mutant of cacheUserInterests: an empty list is not stored
cacheUserInterestsNonEmpty(c, userId, data) ==
    IF data = [rows |-> <<>>] THEN c ELSE CacheSet(c, InterestsKey(userId), data)

getCachedUserInterests(c, userId) == CacheGet(c, InterestsKey(userId))
cacheUserInterests(c, userId, data) == CacheSet(c, InterestsKey(userId), data)
\* mutant of cacheUserPortfolio: the key of the interests entry is used
cacheUserPortfolioWrongKey(c, userId, data) == CacheSet(c, InterestsKey(userId), data)

getCachedUserPortfolio(c, userId) == CacheGet(c, PortfolioKey(userId))
cacheUserPortfolio(c, userId, data) == CacheSet(c, PortfolioKey(userId), data)
getCachedNewsArticles(c, filters) == CacheGet(c, ArticlesKey(filters))
cacheNewsArticles(c, filters, data) == CacheSet(c, ArticlesKey(filters), data)

CacheMaxSize == 1000
getCacheStats(c) == [size |-> Cardinality(DOMAIN c), maxSize |-> CacheMaxSize]

----------------------------------------------------------------------------
(* utils/personalization (src/unnamed/part_006) *)

createPersonalizationContext(userInterests, userPortfolio, userHistory, articles) ==
    [processingTime |-> 0, algorithmsUsed |-> <<"basic-ranking">>]

\* Math.random() * 0.8 + 0.2 lies in [0.2, 1.0): the values the model draws
RandomScores == {20, 99}

RelevanceOrZero(a) == IF a.relevance_score.some THEN a.relevance_score.val ELSE 0

\* a ranking that keeps only the articles scoring at least one half
rankAndFilterArticlesThreshold(articles, userInterests, userPortfolio, userHistory, options, random) ==
    FilterSeq(
        StableSortDesc(
            [i \in 1..Len(articles) |-> [articles[i] EXCEPT !.relevance_score = Some(random[i])]],
            RelevanceOrZero),
        LAMBDA a : a.relevance_score.val >= 50)

\* rankAndFilterArticles; random[i] is the score drawn for the i-th article
rankAndFilterArticles(articles, userInterests, userPortfolio, userHistory, options, random) ==
    StableSortDesc(
        [i \in 1..Len(articles) |-> [articles[i] EXCEPT !.relevance_score = Some(random[i])]],
        RelevanceOrZero)

----------------------------------------------------------------------------
(* route.ts: the parsing and the pagination of personalizedNewsHandler *)

DefaultMaxAge == 168
MaxMaxAge == 720
MinRelevanceScore == 5
PoolFactor == 10
PoolCap == 500

ParseSortBy(raw) == IF raw = "latest" THEN "latest" ELSE "relevance"

ParseIncludeBookmarks(raw) == raw = "true"

ParseMinSentiment(raw) ==
    IF IsFalsy(raw) THEN None
    ELSE Some(MathMax(Num(-100), MathMin(Num(100), ParseFloat(raw))))

ParseMaxAge(raw) ==
    MathMax(Num(1), MathMin(Num(MaxMaxAge),
            ParseInt(IF IsFalsy(raw) THEN RawNum(DefaultMaxAge * 100) ELSE raw)))

MinSentimentInvalid(raw) == ~IsFalsy(raw) /\ ParseFloat(raw).nan

MaxAgeInvalid(raw) == ~IsFalsy(raw) /\ ParseInt(raw).nan

NewsFilters(limit, maxAge, minSentiment) ==
    [limit |-> MathMin(Num(PoolCap), JsMul(limit, Num(PoolFactor))),
     maxAge |-> maxAge,
     minSentiment |-> minSentiment]

\* mutant of Paginate: hasMore computed with <= instead of <
PaginateOffByOne(rankedArticles, page, limit) ==
    LET startIndex == JsMul(JsSub(page, Num(1)), limit)
        endIndex == JsAdd(startIndex, limit)
    IN [paginatedArticles |-> Slice(rankedArticles, startIndex, endIndex),
        pagination |-> [page |-> page,
                        limit |-> limit,
                        total |-> Len(rankedArticles),
                        hasMore |-> ~endIndex.nan /\ endIndex.v <= Len(rankedArticles)]]

\* lines 233-236 and 281-286: the page and its pagination block
Paginate(rankedArticles, page, limit) ==
    LET startIndex == JsMul(JsSub(page, Num(1)), limit)
        endIndex == JsAdd(startIndex, limit)
    IN [paginatedArticles |-> Slice(rankedArticles, startIndex, endIndex),
        pagination |-> [page |-> page,
                        limit |-> limit,
                        total |-> Len(rankedArticles),
                        hasMore |-> JsLt(endIndex, Num(Len(rankedArticles)))]]

\* mutant of SortLatest: the comparator's operands are swapped
NegPublishedAt(a) == -a.published_at
SortLatestAscending(articles) == StableSortDesc(articles, NegPublishedAt)

\* mutant of SortLatest: a sort that is not stable, equal dates are reversed
SortLatestUnstable(articles) ==
    StableSortDesc([i \in 1..Len(articles) |-> articles[Len(articles) + 1 - i]], PublishedAt)

\* line 210: the comparator of the latest mode orders by published_at descending
SortLatest(articles) == StableSortDesc(articles, PublishedAt)

\* line 245: the ids of an article array
Ids(articles) == [i \in 1..Len(articles) |-> articles[i].id]

----------------------------------------------------------------------------
(* State of a request *)

\* an array held by value, and an article array held by reference into heap
Rows(s) == [rows |-> s]
Ref(n) == [ref |-> n]

Query(method, auth, page, limit, sortBy, includeBookmarks, minSentiment, maxAge) ==
    [method |-> method, auth |-> auth, page |-> page, limit |-> limit, sortBy |-> sortBy,
     includeBookmarks |-> includeBookmarks, minSentiment |-> minSentiment, maxAge |-> maxAge]

NoQuery == Query("GET", "none", RawAbsent, RawAbsent, "", "", RawAbsent, RawAbsent)

NoPagination == [page |-> Num(0), limit |-> Num(0), total |-> 0, hasMore |-> FALSE]

NoResponse ==
    [status |-> 0, message |-> "", articles |-> <<>>, pagination |-> NoPagination,
     relevanceScores |-> {}, appliedFilters |-> <<>>, cacheStatus |-> "",
     cacheStats |-> [size |-> 0, maxSize |-> 0], algorithmsUsed |-> <<>>]

NoFilters == [limit |-> Num(0), maxAge |-> Num(0), minSentiment |-> None]

NoRankInput == [articles |-> <<>>, userInterests |-> <<>>, userPortfolio |-> <<>>, userHistory |-> None]

IdleLoc ==
    [req |-> NoQuery,
     userId |-> "",
     page |-> Num(0), limit |-> Num(0), sortBy |-> "", includeBookmarks |-> FALSE,
     minSentiment |-> None, maxAge |-> Num(0),
     cacheStats |-> [size |-> 0, maxSize |-> 0],
     newsFilters |-> NoFilters,
     userInterests |-> None, userPortfolio |-> None, articles |-> None,
     fetchPromises |-> <<>>,        \* the kinds of the promises pushed, in order
     pending |-> {},                \* the promises not yet resolved
     results |-> <<>>,              \* what Promise.all collects, by position
     cutoff |-> 0,
     userHistory |-> None,
     scored |-> FALSE,              \* ghost: rankAndFilterArticles was called
     pendingAtRank |-> {},          \* ghost: the promises unresolved when ranking began
     rankInput |-> NoRankInput,     \* ghost: the four inputs handed to ranking
     rankedArticles |-> <<>>,
     paginatedArticles |-> <<>>,
     pagination |-> NoPagination,
     algorithmsUsed |-> <<>>,
     bookmarkQuery |-> None,        \* the ids handed to fetchUserBookmarks
     failed |-> {},                 \* ghost: the queries the store answered with an error
     fetchedAt |-> 0,               \* ghost: the hour of the store's last answer
     response |-> NoResponse]

\* lib/supabase verifySupabaseToken: the user of a valid token (the token
\* "noid" resolves to a user object without an id), None when it throws
verifySupabaseToken(auth) ==
    IF auth \in Users THEN Some(auth)
    ELSE IF auth = "noid" THEN Some("")
    ELSE None

NoLastSet == [interests |-> [u \in Users |-> None],
              portfolio |-> [u \in Users |-> None],
              articles  |-> << >>]

NoLastOp == [fn |-> "", user |-> "", filters |-> NoFilters, ret |-> None, before |-> << >>]

NoRank == [phase |-> "off", articles |-> <<>>, userInterests |-> <<>>, userPortfolio |-> <<>>,
           minRelevanceScore |-> 0, out1 |-> None, out2 |-> None]

\* api/keywords/route.ts: a string is the sequence of its characters
Tech == <<"t", "e", "c", "h">>
Energy == <<"e", "n", "e", "r", "g", "y">>

\* String.prototype.trim: the leading and the trailing blanks are removed
Trim(s) ==
    LET solid == { i \in 1..Len(s) : s[i] # " " }
    IN IF solid = {} THEN <<>>
       ELSE SubSeq(s, CHOOSE i \in solid : \A j \in solid : i <= j,
                      CHOOSE i \in solid : \A j \in solid : i >= j)

\* a POST handler that has not started
IdlePost == [userId |-> None, category |-> <<>>, priority |-> None,
             existing |-> 0, failed |-> FALSE, status |-> 0, thrown |-> "", message |-> ""]

\* the user_interests rows before any POST: u1 has the category tech
NoKeywords ==
    [rows |-> <<[user_id |-> "u1", interest_category |-> Tech, priority_level |-> 5]>>,
     pc |-> [r \in Reqs |-> "idle"],
     loc |-> [r \in Reqs |-> IdlePost]]

\* the table of the concurrent specification: an active row and an inactive one
SmallTable ==
    { NewsRow("a1", 4, "positive", TRUE),
      NewsRow("a3", 5, "positive", FALSE) }

\* the state after module load: an empty cache, no request in progress
InitOver(tables) ==
    /\ cache = << >>
    /\ heap = <<>>
    /\ pc = [r \in Reqs |-> "idle"]
    /\ loc = [r \in Reqs |-> IdleLoc]
    /\ now = StartHour
    /\ newsTable \in tables
    /\ storeErrors = 0
    /\ lastSet = NoLastSet
    /\ lastOp = NoLastOp
    /\ rk = NoRank
    /\ kw = NoKeywords

Init == InitOver({SmallTable})

----------------------------------------------------------------------------
(* personalizedNewsHandler, one action per stretch between two awaits *)

\* withErrorHandling turns a thrown error into an error response
ErrorResponse(message) ==
    [NoResponse EXCEPT !.status = StatusOf(message), !.message = ResponseMessage(message)]

Fail(r, message) ==
    /\ pc' = [pc EXCEPT ![r] = "responded"]
    /\ loc' = [loc EXCEPT ![r].response = ErrorResponse(message)]

\* lines 88-109: method and Authorization header checks, then the token
\* verification is awaited
Receive(r, q) ==
    /\ pc[r] = "idle"
    /\ IF q.method # "GET"
       THEN /\ pc' = [pc EXCEPT ![r] = "responded"]
            /\ loc' = [loc EXCEPT ![r] = [IdleLoc EXCEPT !.req = q,
                                                  !.response = ErrorResponse(MsgMethod)]]
       ELSE IF q.auth = "none"
       THEN /\ pc' = [pc EXCEPT ![r] = "responded"]
            /\ loc' = [loc EXCEPT ![r] = [IdleLoc EXCEPT !.req = q,
                                                  !.response = ErrorResponse(MsgAuthHeader)]]
       ELSE /\ pc' = [pc EXCEPT ![r] = "verify"]
            /\ loc' = [loc EXCEPT ![r] = [IdleLoc EXCEPT !.req = q]]
    /\ UNCHANGED <<cache, heap, now, newsTable, storeErrors, lastSet, lastOp, rk, kw>>

\* mutant of FetchPromises: no history fetch when everything else was cached
FetchPromisesSkipHistory(userInterests, userPortfolio, articles) ==
    (IF ~userInterests.some THEN <<"interests">> ELSE <<>>)
    \o (IF ~userPortfolio.some THEN <<"portfolio">> ELSE <<>>)
    \o (IF ~articles.some THEN <<"articles">> ELSE <<>>)
    \o (IF userInterests.some /\ userPortfolio.some /\ articles.some THEN <<>> ELSE <<"history">>)

\* lines 153-187: the promises pushed, history always last
FetchPromises(userInterests, userPortfolio, articles) ==
    (IF ~userInterests.some THEN <<"interests">> ELSE <<>>)
    \o (IF ~userPortfolio.some THEN <<"portfolio">> ELSE <<>>)
    \o (IF ~articles.some THEN <<"articles">> ELSE <<>>)
    \o <<"history">>

\* lines 109-190: the token resolves; parameters are parsed, the cache is read
\* and the fetches are issued; the handler then awaits Promise.all
Verified(r) ==
    /\ pc[r] = "verify"
    /\ LET q == loc[r].req
           user == verifySupabaseToken(q.auth)
           pg == validatePagination(q.page, q.limit)
           minSentiment == ParseMinSentiment(q.minSentiment)
           maxAge == ParseMaxAge(q.maxAge)
           userId == user.val
           newsFilters == NewsFilters(pg.limit, maxAge, minSentiment)
           userInterests == getCachedUserInterests(cache, userId)
           userPortfolio == getCachedUserPortfolio(cache, userId)
           articles == getCachedNewsArticles(cache, newsFilters)
           fetchPromises == FetchPromises(userInterests, userPortfolio, articles)
       IN IF ~user.some THEN Fail(r, MsgVerify)
          ELSE IF userId = "" THEN Fail(r, MsgNoUser)
          ELSE IF MinSentimentInvalid(q.minSentiment) THEN Fail(r, MsgMinSentiment)
          ELSE IF MaxAgeInvalid(q.maxAge) THEN Fail(r, MsgMaxAge)
          ELSE /\ pc' = [pc EXCEPT ![r] = "await"]
               /\ loc' = [loc EXCEPT ![r] =
                     [@ EXCEPT !.userId = userId,
                               !.page = pg.page,
                               !.limit = pg.limit,
                               !.sortBy = ParseSortBy(q.sortBy),
                               !.includeBookmarks = ParseIncludeBookmarks(q.includeBookmarks),
                               !.minSentiment = minSentiment,
                               !.maxAge = maxAge,
                               !.cacheStats = getCacheStats(cache),
                               !.newsFilters = newsFilters,
                               !.userInterests = userInterests,
                               !.userPortfolio = userPortfolio,
                               !.articles = articles,
                               !.fetchPromises = fetchPromises,
                               !.pending = Range(fetchPromises),
                               !.results = [i \in 1..Len(fetchPromises) |-> None],
                               !.cutoff = CutoffDate(newsFilters, now)]]
    /\ UNCHANGED <<cache, heap, now, newsTable, storeErrors, lastSet, lastOp, rk, kw>>

\* a query of the backing store answers with data (ok) or with an error
StoreQuery(ok) ==
    /\ ok \/ storeErrors < MaxStoreErrors
    /\ storeErrors' = IF ok THEN storeErrors ELSE storeErrors + 1

\* the position of a promise in fetchPromises
IndexOf(fetchPromises, kind) ==
    CHOOSE i \in 1..Len(fetchPromises) : fetchPromises[i] = kind

Resolved(l, kind, data) ==
    [l EXCEPT !.pending = @ \ {kind},
              !.results[IndexOf(l.fetchPromises, kind)] = Some(data)]

\* ghost: the store answered the query of this kind now, with data or an error
Errored(l, kind, ok) ==
    [l EXCEPT !.failed = IF ok THEN @ ELSE @ \cup {kind},
              !.fetchedAt = now]

\* lines 158-162: fetchUserInterests resolves and its then-callback runs
ResolveInterests(r, ok) ==
    /\ pc[r] = "await"
    /\ "interests" \in loc[r].pending
    /\ StoreQuery(ok)
    /\ LET data == Rows(fetchUserInterests(loc[r].userId, ok))
       IN /\ loc' = [loc EXCEPT ![r] = [Resolved(Errored(@, "interests", ok), "interests", data) EXCEPT !.userInterests = Some(data)]]
          /\ cache' = cacheUserInterests(cache, loc[r].userId, data)
          /\ lastSet' = [lastSet EXCEPT !.interests[loc[r].userId] = Some(data)]
    /\ UNCHANGED <<heap, pc, now, newsTable, lastOp, rk, kw>>

\* lines 168-172: fetchUserPortfolio resolves and its then-callback runs
ResolvePortfolio(r, ok) ==
    /\ pc[r] = "await"
    /\ "portfolio" \in loc[r].pending
    /\ StoreQuery(ok)
    /\ LET data == Rows(fetchUserPortfolio(loc[r].userId, ok))
       IN /\ loc' = [loc EXCEPT ![r] = [Resolved(Errored(@, "portfolio", ok), "portfolio", data) EXCEPT !.userPortfolio = Some(data)]]
          /\ cache' = cacheUserPortfolio(cache, loc[r].userId, data)
          /\ lastSet' = [lastSet EXCEPT !.portfolio[loc[r].userId] = Some(data)]
    /\ UNCHANGED <<heap, pc, now, newsTable, lastOp, rk, kw>>

\* lines 178-182: fetchNewsArticles resolves with a new array and its
\* then-callback runs
ResolveArticles(r, ok) ==
    /\ pc[r] = "await"
    /\ "articles" \in loc[r].pending
    /\ StoreQuery(ok)
    /\ \E array \in fetchNewsArticles(newsTable, loc[r].newsFilters, loc[r].cutoff, ok) :
          LET data == Ref(Len(heap) + 1)
              f == loc[r].newsFilters
          IN /\ heap' = Append(heap, array)
             /\ loc' = [loc EXCEPT ![r] = [Resolved(Errored(@, "articles", ok), "articles", data) EXCEPT !.articles = Some(data)]]
             /\ cache' = cacheNewsArticles(cache, f, data)
             /\ lastSet' = [lastSet EXCEPT !.articles =
                               [g \in DOMAIN @ \cup {f} |-> IF g = f THEN Some(data) ELSE @[g]]]
    /\ UNCHANGED <<pc, now, newsTable, lastOp, rk, kw>>

\* line 187: fetchUserNewsHistory resolves; nothing is attached to it
ResolveHistory(r, ok) ==
    /\ pc[r] = "await"
    /\ "history" \in loc[r].pending
    /\ StoreQuery(ok)
    /\ loc' = [loc EXCEPT ![r] =
                  Resolved(Errored(@, "history", ok), "history",
                           Rows(fetchUserNewsHistory(loc[r].userId, ok)))]
    /\ UNCHANGED <<cache, heap, pc, now, newsTable, lastSet, lastOp, rk, kw>>

\* mutant of AllResolved: the handler resumes as soon as one promise has resolved
AnyResolved(l) == l.pending # Range(l.fetchPromises)

\* line 190: await Promise.all(fetchPromises) resumes when every promise has resolved
AllResolved(l) == l.pending = {}

\* lines 250-271: the external shape of the page and the score map
FormatArticles(paginatedArticles, bookmarkedArticles) ==
    [i \in 1..Len(paginatedArticles) |->
        [id |-> paginatedArticles[i].id,
         published_at |-> paginatedArticles[i].published_at,
         sentiment_score |-> paginatedArticles[i].sentiment_score,
         sentiment_label |-> paginatedArticles[i].sentiment_label,
         is_bookmarked |-> paginatedArticles[i].id \in bookmarkedArticles]]

RelevanceScores(paginatedArticles) ==
    { <<a.id, a.relevance_score.val>> : a \in { b \in Range(paginatedArticles) : b.relevance_score.some } }

\* lines 290-295
AppliedFilters(l) ==
    (IF l.minSentiment.some THEN <<"minSentiment:" \o JsonHundredths(l.minSentiment.val)>> ELSE <<>>)
    \o <<"maxAge:" \o JsonInt(l.maxAge), "sortBy:" \o l.sortBy>>
    \o (IF l.includeBookmarks THEN <<"includeBookmarks">> ELSE <<>>)

\* lines 301-302
CacheHitStatus(c, userId, newsFilters) ==
    IF /\ getCachedUserInterests(c, userId).some
       /\ getCachedUserPortfolio(c, userId).some
       /\ getCachedNewsArticles(c, newsFilters).some
    THEN "HIT" ELSE "MISS"

\* lines 279-379: the successful response
BuildResponse(l, bookmarkedArticles, c) ==
    [status |-> 200,
     message |-> "",
     articles |-> FormatArticles(l.paginatedArticles, bookmarkedArticles),
     pagination |-> l.pagination,
     relevanceScores |-> RelevanceScores(l.paginatedArticles),
     appliedFilters |-> AppliedFilters(l),
     cacheStatus |-> CacheHitStatus(c, l.userId, l.newsFilters),
     cacheStats |-> l.cacheStats,
     algorithmsUsed |-> l.algorithmsUsed]

\* mutant of ArticleIdsOfPage: the ids of the whole ranked list
ArticleIdsOfRanked(paginatedArticles, rankedArticles) == Ids(rankedArticles)

\* line 245: the ids handed to fetchUserBookmarks
ArticleIdsOfPage(paginatedArticles, rankedArticles) == Ids(paginatedArticles)

RankingWeights == [keywordMatch |-> 40, symbolMatch |-> 30, sentimentWeight |-> 20, timeDecay |-> 10]

\* lines 231-247: pagination; the bookmark fetch is awaited when asked for
\* and the page is not empty, otherwise the response is built at once
AfterRanking(r, l, ranked, scored, userHistory, context) ==
    LET pg == Paginate(ranked, l.page, l.limit)
        l2 == [l EXCEPT !.userHistory = userHistory,
                        !.scored = scored,
                        !.pendingAtRank = l.pending,
                        !.rankInput = [articles |-> heap[l.articles.val.ref],
                                       userInterests |-> l.userInterests.val.rows,
                                       userPortfolio |-> l.userPortfolio.val.rows,
                                       userHistory |-> userHistory],
                        !.rankedArticles = ranked,
                        !.paginatedArticles = pg.paginatedArticles,
                        !.pagination = pg.pagination,
                        !.algorithmsUsed = context.algorithmsUsed]
        articleIds == ArticleIdsOfPage(pg.paginatedArticles, ranked)
    IN IF l.includeBookmarks /\ Len(pg.paginatedArticles) > 0
       THEN /\ pc' = [pc EXCEPT ![r] = "bookmarks"]
            /\ loc' = [loc EXCEPT ![r] = [l2 EXCEPT !.bookmarkQuery = Some(articleIds)]]
       ELSE /\ pc' = [pc EXCEPT ![r] = "responded"]
            /\ loc' = [loc EXCEPT ![r] = [l2 EXCEPT !.response = BuildResponse(l2, {}, cache)]]

\* mutant of UserHistoryOf: the first awaited result is taken
UserHistoryFirst(results) == results[1]

\* line 191: the user history is the last of the awaited results
UserHistoryOf(results) == results[Len(results)]

\* lines 190-247: Promise.all resumes the handler; it ranks (or sorts, in the
\* latest mode, the article array in place) and paginates
Join(r) ==
    /\ pc[r] = "await"
    /\ AllResolved(loc[r])
    /\ LET l == loc[r]
           userHistory == UserHistoryOf(l.results)
       IN IF ~l.userInterests.some \/ ~l.userPortfolio.some \/ ~l.articles.some
          THEN Fail(r, MsgLoad) /\ UNCHANGED heap
          ELSE LET ref == l.articles.val.ref
                   context == createPersonalizationContext(
                                  l.userInterests.val.rows, l.userPortfolio.val.rows,
                                  userHistory, heap[ref])
                   options == [minRelevanceScore |-> MinRelevanceScore,
                               maxAge |-> l.maxAge,
                               includeBookmarks |-> l.includeBookmarks,
                               weights |-> RankingWeights,
                               context |-> context]
               IN IF l.sortBy = "latest"
                  THEN /\ heap' = [heap EXCEPT ![ref] = SortLatest(heap[ref])]
                       /\ AfterRanking(r, l, SortLatest(heap[ref]), FALSE, userHistory, context)
                  ELSE \E random \in [1..Len(heap[ref]) -> RandomScores] :
                       /\ heap' = heap
                       /\ AfterRanking(r, l,
                              rankAndFilterArticles(heap[ref], l.userInterests.val.rows,
                                  l.userPortfolio.val.rows, userHistory, options, random),
                              TRUE, userHistory, context)
    /\ UNCHANGED <<cache, now, newsTable, storeErrors, lastSet, lastOp, rk, kw>>

\* lines 246-379: fetchUserBookmarks resolves and the response is built
BookmarksResolved(r, ok) ==
    /\ pc[r] = "bookmarks"
    /\ StoreQuery(ok)
    /\ LET l == loc[r]
           bookmarkedArticles == fetchUserBookmarks(l.userId, l.bookmarkQuery.val, ok)
       IN /\ pc' = [pc EXCEPT ![r] = "responded"]
          /\ loc' = [loc EXCEPT ![r] = [Errored(l, "bookmarks", ok) EXCEPT
                                            !.response = BuildResponse(l, bookmarkedArticles, cache)]]
    /\ UNCHANGED <<cache, heap, now, newsTable, lastSet, lastOp, rk, kw>>

\* time passes
Tick ==
    /\ now < StartHour + MaxNow
    /\ now' = now + 1
    /\ UNCHANGED <<cache, heap, pc, loc, newsTable, storeErrors, lastSet, lastOp, rk, kw>>

----------------------------------------------------------------------------
(* Spec: two requests served concurrently over the shared cache *)

Queries ==
    { Query("GET", auth, RawAbsent, RawNum(100), sortBy, "false", RawAbsent, RawAbsent) :
        auth \in {"u1", "u2"}, sortBy \in {"relevance", "latest"} }
    \cup { Query("GET", "u1", RawAbsent, RawNum(100), "relevance", "true", RawAbsent, RawAbsent),
           Query("GET", "none", RawAbsent, RawAbsent, "relevance", "false", RawAbsent, RawAbsent) }

Handle(r) ==
    \/ Verified(r)
    \/ \E ok \in BOOLEAN : ResolveInterests(r, ok)
    \/ \E ok \in BOOLEAN : ResolvePortfolio(r, ok)
    \/ \E ok \in BOOLEAN : ResolveArticles(r, ok)
    \/ \E ok \in BOOLEAN : ResolveHistory(r, ok)
    \/ Join(r)
    \/ \E ok \in BOOLEAN : BookmarksResolved(r, ok)

Next ==
    \E r \in Reqs :
        \/ \E q \in Queries : Receive(r, q)
        \/ Handle(r)

Spec == Init /\ [][Next]_vars

\* a request whose ranking (or latest-mode sort) has run
Ranked(r) ==
    \/ pc[r] = "bookmarks"
    \/ pc[r] = "responded" /\ loc[r].response.status = 200

\* a request that reached data loading (lines 141-190)
Loaded(r) == pc[r] \in {"await", "bookmarks"} \/ Ranked(r)

AllFilters == { loc[r].newsFilters : r \in { x \in Reqs : Loaded(x) } }

\* the values a store query for a key can come back with
InterestsValues(u) == { Rows(fetchUserInterests(u, ok)) : ok \in BOOLEAN }
PortfolioValues(u) == { Rows(fetchUserPortfolio(u, ok)) : ok \in BOOLEAN }
HistoryValues(u) == { Rows(fetchUserNewsHistory(u, ok)) : ok \in BOOLEAN }
ArticleArrays(f) ==
    UNION { fetchNewsArticles(newsTable, f, CutoffDate(f, t), ok) :
              t \in StartHour..(StartHour + MaxNow), ok \in BOOLEAN }

\* C8: history is never cache-backed.  Every request that reaches data
\* loading has pushed its own history fetch (the last promise) whatever the
\* cache held, every key of the cache is an interests, portfolio or articles
\* key, and no cached value is a history list.
C8_HistoryNeverCached ==
    /\ \A r \in Reqs :
          Loaded(r) =>
             /\ loc[r].fetchPromises # <<>>
             /\ loc[r].fetchPromises[Len(loc[r].fetchPromises)] = "history"
             /\ Cardinality({ i \in 1..Len(loc[r].fetchPromises) : loc[r].fetchPromises[i] = "history" }) = 1
    /\ DOMAIN cache \subseteq
          { InterestsKey(u) : u \in Users } \cup { PortfolioKey(u) : u \in Users }
          \cup { ArticlesKey(f) : f \in AllFilters }
    /\ \A k \in DOMAIN cache, u \in Users :
          user_news_history[u] # <<>> => cache[k] # Rows(user_news_history[u])
    /\ \A r \in Reqs :
          Ranked(r) =>
             /\ loc[r].userHistory = loc[r].results[Len(loc[r].results)]
             /\ loc[r].userHistory \in { Some(v) : v \in HistoryValues(loc[r].userId) }

\* C8 witness: a request found interests, portfolio and articles in the cache
\* and still issued the history fetch, which is in flight
C8_Witness ==
    \E r \in Reqs :
        /\ pc[r] = "await"
        /\ loc[r].fetchPromises = <<"history">>
        /\ loc[r].pending = {"history"}

\* C9: the join barrier.  When ranking (or the latest-mode sort) began, no
\* fetch of the request was unresolved: every promise had delivered its
\* result and all four inputs were loaded.
C9_JoinBarrier ==
    \A r \in Reqs :
        Ranked(r) =>
           /\ loc[r].pendingAtRank = {}
           /\ \A i \in 1..Len(loc[r].results) : loc[r].results[i].some
           /\ loc[r].userInterests.some /\ loc[r].userPortfolio.some /\ loc[r].articles.some
           /\ loc[r].rankInput.userHistory.some

\* C9 witness: a request issued all four fetches and has ranked
C9_Witness ==
    \E r \in Reqs :
        /\ Ranked(r)
        /\ Len(loc[r].fetchPromises) = 4

\* C10: unlocked concurrent fills of one key.  At every moment the cache
\* holds, for each key that was written, the value of the last write, and
\* that value is one a fetch for the same key returns; a request that
\* reached data loading never ends in an error; and a request waiting for a
\* fetch can always have it resolved, whatever the other request is doing.
C10_LastWriteWins ==
    /\ \A u \in Users :
          /\ getCachedUserInterests(cache, u) = lastSet.interests[u]
          /\ lastSet.interests[u].some => lastSet.interests[u].val \in InterestsValues(u)
          /\ getCachedUserPortfolio(cache, u) = lastSet.portfolio[u]
          /\ lastSet.portfolio[u].some => lastSet.portfolio[u].val \in PortfolioValues(u)
    /\ \A f \in DOMAIN lastSet.articles :
          /\ getCachedNewsArticles(cache, f) = lastSet.articles[f]
          /\ heap[lastSet.articles[f].val.ref] \in ArticleArrays(f)
    /\ \A r \in Reqs :
          /\ (pc[r] = "responded" /\ loc[r].userId # "") => loc[r].response.status = 200
          /\ (pc[r] = "await" /\ "interests" \in loc[r].pending) => ENABLED ResolveInterests(r, TRUE)
          /\ (pc[r] = "await" /\ "portfolio" \in loc[r].pending) => ENABLED ResolvePortfolio(r, TRUE)
          /\ (pc[r] = "await" /\ "articles" \in loc[r].pending) => ENABLED ResolveArticles(r, TRUE)

\* C10 witness: two requests of one user both missed the interests key, both
\* fetched and wrote it with different values, and both have answered
C10_Witness ==
    \E r1, r2 \in Reqs :
        /\ r1 # r2
        /\ pc[r1] = "responded" /\ pc[r2] = "responded"
        /\ loc[r1].response.status = 200 /\ loc[r2].response.status = 200
        /\ loc[r1].userId = loc[r2].userId
        /\ loc[r1].fetchPromises[1] = "interests" /\ loc[r2].fetchPromises[1] = "interests"
        /\ loc[r1].userInterests # loc[r2].userInterests

----------------------------------------------------------------------------
(* SpecCache: the exported cache functions called directly, in any order *)

CacheData == { Rows(<<>>), Rows(user_interests["u1"]) }

CacheFilters ==
    { NewsFilters(Num(1), Num(DefaultMaxAge), None),
      NewsFilters(Num(1), Num(DefaultMaxAge), Some(Num(50))) }

Called(fn, user, filters, ret) ==
    lastOp' = [fn |-> fn, user |-> user, filters |-> filters, ret |-> ret, before |-> cache]

CallCacheUserInterests(userId, data) ==
    /\ cache' = cacheUserInterests(cache, userId, data)
    /\ lastSet' = [lastSet EXCEPT !.interests[userId] = Some(data)]
    /\ Called("cacheUserInterests", userId, NoFilters, None)
    /\ UNCHANGED <<heap, pc, loc, now, newsTable, storeErrors, rk, kw>>

CallGetCachedUserInterests(userId) ==
    /\ Called("getCachedUserInterests", userId, NoFilters, getCachedUserInterests(cache, userId))
    /\ UNCHANGED <<cache, heap, pc, loc, now, newsTable, storeErrors, lastSet, rk, kw>>

CallCacheUserPortfolio(userId, data) ==
    /\ cache' = cacheUserPortfolio(cache, userId, data)
    /\ lastSet' = [lastSet EXCEPT !.portfolio[userId] = Some(data)]
    /\ Called("cacheUserPortfolio", userId, NoFilters, None)
    /\ UNCHANGED <<heap, pc, loc, now, newsTable, storeErrors, rk, kw>>

CallGetCachedUserPortfolio(userId) ==
    /\ Called("getCachedUserPortfolio", userId, NoFilters, getCachedUserPortfolio(cache, userId))
    /\ UNCHANGED <<cache, heap, pc, loc, now, newsTable, storeErrors, lastSet, rk, kw>>

CallCacheNewsArticles(filters, data) ==
    /\ cache' = cacheNewsArticles(cache, filters, data)
    /\ lastSet' = [lastSet EXCEPT !.articles =
                      [g \in DOMAIN @ \cup {filters} |-> IF g = filters THEN Some(data) ELSE @[g]]]
    /\ Called("cacheNewsArticles", "", filters, None)
    /\ UNCHANGED <<heap, pc, loc, now, newsTable, storeErrors, rk, kw>>

CallGetCachedNewsArticles(filters) ==
    /\ Called("getCachedNewsArticles", "", filters, getCachedNewsArticles(cache, filters))
    /\ UNCHANGED <<cache, heap, pc, loc, now, newsTable, storeErrors, lastSet, rk, kw>>

NextCache ==
    \/ \E u \in Users, data \in CacheData : CallCacheUserInterests(u, data)
    \/ \E u \in Users : CallGetCachedUserInterests(u)
    \/ \E u \in Users, data \in CacheData : CallCacheUserPortfolio(u, data)
    \/ \E u \in Users : CallGetCachedUserPortfolio(u)
    \/ \E f \in CacheFilters, data \in CacheData : CallCacheNewsArticles(f, data)
    \/ \E f \in CacheFilters : CallGetCachedNewsArticles(f)

SpecCache == Init /\ [][NextCache]_vars

\* the value the last set for the entry stored, None when it was never set
LastSetFor(fn, user, filters) ==
    CASE fn = "getCachedUserInterests" -> lastSet.interests[user]
      [] fn = "getCachedUserPortfolio" -> lastSet.portfolio[user]
      [] fn = "getCachedNewsArticles" ->
            IF filters \in DOMAIN lastSet.articles THEN lastSet.articles[filters] ELSE None

IsGet(fn) == fn \in {"getCachedUserInterests", "getCachedUserPortfolio", "getCachedNewsArticles"}

\* C7: after any sequence of cache calls, a get returns the value of the most
\* recent set for the same entry, a get for an entry never set returns
\* undefined, and a get leaves the cache as it was.
C7_GetReturnsLastSet ==
    IsGet(lastOp.fn) =>
        /\ lastOp.ret = LastSetFor(lastOp.fn, lastOp.user, lastOp.filters)
        /\ cache = lastOp.before

\* C7 witness: a get returned a value for an entry while the same user's
\* other entry holds a different value
C7_Witness ==
    /\ lastOp.fn = "getCachedUserInterests"
    /\ lastOp.ret.some
    /\ lastSet.portfolio[lastOp.user].some
    /\ lastSet.portfolio[lastOp.user] # lastOp.ret

----------------------------------------------------------------------------
(* SpecRank: rankAndFilterArticles called directly, twice on the same inputs *)

ArticleIds == <<"a1", "a2", "a3">>

\* the position of an article id in the ascending order of ids
IdRank(id) == CHOOSE i \in 1..Len(ArticleIds) : ArticleIds[i] = id

Article(id, published_at) ==
    [id |-> id, published_at |-> published_at, sentiment_score |-> 0,
     sentiment_label |-> "neutral", relevance_score |-> None]

RankArticleLists ==
    { s \in UNION { [1..n -> { Article(id, t) : id \in Range(ArticleIds), t \in 1..2 }] :
                      n \in 0..MaxRankLen } :
        \A i, j \in 1..Len(s) : i # j => s[i].id # s[j].id }

InitRank ==
    /\ cache = << >>
    /\ heap = <<>>
    /\ pc = [r \in Reqs |-> "idle"]
    /\ loc = [r \in Reqs |-> IdleLoc]
    /\ now = StartHour
    /\ newsTable = SmallTable
    /\ storeErrors = 0
    /\ lastSet = NoLastSet
    /\ lastOp = NoLastOp
    /\ kw = NoKeywords
    /\ \E articles \in RankArticleLists, userInterests \in {<<>>, user_interests["u1"]},
          userPortfolio \in {<<>>, user_portfolio["u1"]},
          minRelevanceScore \in {0, MinRelevanceScore, 50} :
          rk = [NoRank EXCEPT !.phase = "ready", !.articles = articles,
                              !.userInterests = userInterests,
                              !.userPortfolio = userPortfolio,
                              !.minRelevanceScore = minRelevanceScore]

RankOptions ==
    [minRelevanceScore |-> rk.minRelevanceScore, maxAge |-> Num(DefaultMaxAge),
     includeBookmarks |-> FALSE, weights |-> RankingWeights,
     context |-> createPersonalizationContext(rk.userInterests, rk.userPortfolio, None, rk.articles)]

CallRank(random) ==
    rankAndFilterArticles(rk.articles, rk.userInterests, rk.userPortfolio, None, RankOptions, random)

RankFirst ==
    /\ rk.phase = "ready"
    /\ \E random \in [1..Len(rk.articles) -> RandomScores] :
          rk' = [rk EXCEPT !.phase = "once", !.out1 = Some(CallRank(random))]
    /\ UNCHANGED <<cache, heap, pc, loc, now, newsTable, storeErrors, lastSet, lastOp, kw>>

RankSecond ==
    /\ rk.phase = "once"
    /\ \E random \in [1..Len(rk.articles) -> RandomScores] :
          rk' = [rk EXCEPT !.phase = "twice", !.out2 = Some(CallRank(random))]
    /\ UNCHANGED <<cache, heap, pc, loc, now, newsTable, storeErrors, lastSet, lastOp, kw>>

NextRank == RankFirst \/ RankSecond

SpecRank == InitRank /\ [][NextRank]_vars

\* a precedes b in the order the specification asks for: score descending,
\* then publication time descending, then article id ascending
RankedBefore(a, b) ==
    \/ a.relevance_score.val > b.relevance_score.val
    \/ /\ a.relevance_score.val = b.relevance_score.val
       /\ \/ a.published_at > b.published_at
          \/ a.published_at = b.published_at /\ IdRank(a.id) < IdRank(b.id)

\* C3: the list rankAndFilterArticles returns is sorted by relevance score
\* descending, equal scores by publication time descending and then by
\* article id ascending.
C3_SortedWithTieBreak ==
    rk.out1.some =>
        \A i, j \in 1..Len(rk.out1.val) : i < j => RankedBefore(rk.out1.val[i], rk.out1.val[j])

\* C4: no article whose relevance score is below options.minRelevanceScore
\* is in the list rankAndFilterArticles returns.
C4_MinScoreFilter ==
    rk.out1.some =>
        \A i \in 1..Len(rk.out1.val) : rk.out1.val[i].relevance_score.val >= rk.minRelevanceScore

\* C5: two calls of rankAndFilterArticles with identical inputs return
\* identical ordered lists with identical scores.
C5_Deterministic ==
    (rk.out1.some /\ rk.out2.some) => rk.out1.val = rk.out2.val

----------------------------------------------------------------------------
(* SpecOne: one request, over every combination of query parameters *)

TablesOne ==
    { {},
      { NewsRow("a1", 4, "positive", TRUE),
        NewsRow("a2", 4, "negative", TRUE),
        NewsRow("a3", 2, "neutral", TRUE),
        NewsRow("a4", 5, "positive", FALSE) },
      { NewsRow("a1", 1, "negative", TRUE),
        NewsRow("a2", 3, "neutral", TRUE),
        NewsRow("a3", 5, "positive", TRUE) } }

QueriesOne ==
    { Query("GET", "u1", page, limit, sortBy, includeBookmarks, minSentiment, maxAge) :
        page \in {RawAbsent, RawNum(200), RawNum(300), RawText},
        limit \in {RawAbsent, RawNum(100), RawNum(200), RawText},
        sortBy \in {"relevance", "latest"},
        includeBookmarks \in {"true", "false"},
        minSentiment \in {RawAbsent, RawNum(0), RawText},
        maxAge \in {RawAbsent, RawNum(200), RawText} }
    \cup
    \* page and limit out of range, fractional or empty
    { Query("GET", "u1", page, limit, "relevance", "false", RawAbsent, RawAbsent) :
        page \in {RawEmpty, RawNum(0), RawNum(-300), RawNum(150)},
        limit \in {RawEmpty, RawNum(0), RawNum(-100), RawNum(100000)} }
    \cup
    \* minSentiment and maxAge out of range or empty
    { Query("GET", "u1", RawAbsent, RawAbsent, "relevance", "false", minSentiment, maxAge) :
        minSentiment \in {RawEmpty, RawNum(500), RawNum(-300)},
        maxAge \in {RawEmpty, RawNum(0), RawNum(100000)} }
    \cup
    \* another method, no Authorization header, a token that does not verify,
    \* a token whose user has no id
    { Query(method, auth, RawAbsent, RawAbsent, "relevance", "false", minSentiment, RawAbsent) :
        method \in {"GET", "POST"}, auth \in {"none", "bad", "noid"},
        minSentiment \in {RawAbsent, RawText} }

InitOne == InitOver(TablesOne)

NextOne ==
    \/ \E q \in QueriesOne : Receive(1, q)
    \/ Handle(1)

SpecOne == InitOne /\ [][NextOne]_vars

\* the worked example of the specification: 25 ranked articles, limit 10
Example25 == [i \in 1..25 |-> Article("a1", 26 - i)]

\* C1: a successful response holds at most limit articles, namely the items
\* (page-1)*limit+1 .. page*limit of the ranked list that exist;
\* pagination.total is the length of the ranked list; and hasMore is true
\* exactly when page*limit < total.  With 25 ranked articles and limit 10,
\* page 1 has hasMore = true and page 3 has hasMore = false and items 21-25.
C1_Pagination ==
    /\ \A r \in Reqs :
          (pc[r] = "responded" /\ loc[r].response.status = 200) =>
             LET resp == loc[r].response
                 ranked == loc[r].rankedArticles
                 page == loc[r].page
                 limit == loc[r].limit
             IN /\ resp.pagination.total = Len(ranked)
                /\ resp.pagination.hasMore <=> JsLt(JsMul(page, limit), Num(Len(ranked)))
                /\ (~page.nan /\ ~limit.nan) =>
                      /\ Len(resp.articles) <= limit.v
                      /\ Len(resp.articles) = Max(0, Min(limit.v, Len(ranked) - (page.v - 1) * limit.v))
                      /\ \A i \in 1..Len(resp.articles) :
                            resp.articles[i].id = ranked[(page.v - 1) * limit.v + i].id
    /\ Paginate(Example25, Num(1), Num(10)).pagination.hasMore
    /\ ~Paginate(Example25, Num(3), Num(10)).pagination.hasMore
    /\ Paginate(Example25, Num(3), Num(10)).paginatedArticles = SubSeq(Example25, 21, 25)

\* C1 witness: a last page that is only partly filled (page 2, fewer
\* articles than limit, nothing more)
C1_Witness ==
    \E r \in Reqs :
        /\ pc[r] = "responded" /\ loc[r].response.status = 200
        /\ loc[r].page = Num(2)
        /\ Len(loc[r].response.articles) > 0
        /\ Len(loc[r].response.articles) < loc[r].limit.v
        /\ ~loc[r].response.pagination.hasMore

\* C6: in the latest mode the scoring engine is not called (no article
\* carries a relevance score) and the result list holds the articles of the
\* pool ordered by published_at descending: an article published after
\* another precedes it.
C6_LatestMode ==
    \A r \in Reqs :
        (Ranked(r) /\ loc[r].sortBy = "latest") =>
           LET ranked == loc[r].rankedArticles
           IN /\ ~loc[r].scored
              /\ \A i \in 1..Len(ranked) : ~ranked[i].relevance_score.some
              /\ Len(ranked) = Len(loc[r].rankInput.articles)
              /\ Range(ranked) = Range(loc[r].rankInput.articles)
              /\ \A i, j \in 1..Len(ranked) :
                    ranked[i].published_at > ranked[j].published_at => i < j
              /\ pc[r] = "responded" => loc[r].response.relevanceScores = {}

\* C6 witness: a latest-mode response over a pool with different publication times
C6_Witness ==
    \E r \in Reqs :
        /\ pc[r] = "responded" /\ loc[r].response.status = 200
        /\ loc[r].sortBy = "latest"
        /\ \E i, j \in 1..Len(loc[r].rankedArticles) :
              loc[r].rankedArticles[i].published_at > loc[r].rankedArticles[j].published_at

----------------------------------------------------------------------------
(* SpecSeq: a client walks the pages, one request after the other *)

TableSeq ==
    { NewsRow("a1", 4, "positive", TRUE),
      NewsRow("a2", 2, "neutral", TRUE),
      NewsRow("a3", 5, "positive", FALSE) }

QueriesSeq ==
    { Query("GET", "u1", page, RawNum(100), sortBy, includeBookmarks, RawAbsent, maxAge) :
        page \in {RawAbsent, RawNum(200)},
        sortBy \in {"relevance", "latest"},
        includeBookmarks \in {"true", "false"},
        maxAge \in {RawAbsent, RawNum(100), RawNum(200)} }

InitSeq == InitOver({TableSeq})

\* the next request is sent once the previous one has been answered
ReceiveSeq(r, q) ==
    /\ \A o \in Reqs : o < r => pc[o] = "responded"
    /\ Receive(r, q)

NextSeq ==
    \/ \E r \in Reqs, q \in QueriesSeq : ReceiveSeq(r, q)
    \/ \E r \in Reqs : Handle(r)
    \/ Tick

SpecSeq == InitSeq /\ [][NextSeq]_vars

\* the two requests differ in the page only and ranked the same inputs
SameInputs(r1, r2) ==
    /\ loc[r1].req = [loc[r2].req EXCEPT !.page = loc[r1].req.page]
    /\ loc[r1].rankInput = loc[r2].rankInput

\* C2: when pages 1 .. ceil(total/limit) are requested with the same inputs,
\* the concatenation of the pages holds every article of the ranked pool
\* exactly once: no article is repeated and none is missing.
C2_PagesPartition ==
    \A r1, r2 \in Reqs :
        ( /\ pc[r1] = "responded" /\ loc[r1].response.status = 200
          /\ pc[r2] = "responded" /\ loc[r2].response.status = 200
          /\ SameInputs(r1, r2)
          /\ loc[r1].limit = Num(1)
          /\ loc[r1].page = Num(1) /\ loc[r2].page = Num(2)
          /\ loc[r1].response.pagination.total = 2
          /\ loc[r2].response.pagination.total = 2 ) =>
            LET pages == Ids(loc[r1].response.articles) \o Ids(loc[r2].response.articles)
                pool == Ids(loc[r1].rankInput.articles)
            IN /\ Len(pages) = Len(pool)
               /\ Range(pages) = Range(pool)

----------------------------------------------------------------------------
(* Error recovery, validation and authorization, checked on SpecOne *)

\* a request that passed token verification and validation and has answered
Answered(r) == pc[r] = "responded" /\ loc[r].userId # ""

\* C11: a store error is recovered locally.  Each accessor returns an empty
\* container when its query errs, and a request one of whose queries erred
\* still answers 200: the erring input is empty, and the ranked list holds
\* exactly the articles that were obtained.
C11_ErrorsRecovered ==
    /\ \A u \in Users :
          /\ fetchUserInterests(u, FALSE) = <<>>
          /\ fetchUserPortfolio(u, FALSE) = <<>>
          /\ fetchUserNewsHistory(u, FALSE) = <<>>
          /\ fetchUserBookmarks(u, <<"a1">>, FALSE) = {}
          /\ \A f \in AllFilters : fetchNewsArticles(newsTable, f, 0, FALSE) = { <<>> }
    /\ \A r \in Reqs :
          (Answered(r) /\ loc[r].failed # {}) =>
             LET l == loc[r]
             IN /\ l.response.status = 200
                /\ "interests" \in l.failed => l.rankInput.userInterests = <<>>
                /\ "portfolio" \in l.failed => l.rankInput.userPortfolio = <<>>
                /\ "history" \in l.failed => l.rankInput.userHistory = Some(Rows(<<>>))
                /\ "articles" \in l.failed =>
                      l.rankInput.articles = <<>> /\ l.response.articles = <<>>
                /\ "bookmarks" \in l.failed =>
                      \A i \in 1..Len(l.response.articles) : ~l.response.articles[i].is_bookmarked
                /\ Len(l.rankedArticles) = Len(l.rankInput.articles)
                /\ Ids(l.paginatedArticles) = Ids(l.response.articles)
                /\ Range(Ids(l.rankedArticles)) = Range(Ids(l.rankInput.articles))
    /\ \A r \in Reqs :
          (pc[r] \in {"await", "bookmarks"}) => loc[r].response = NoResponse

\* C11 witness: the interests query erred and the request answered with articles
C11_Witness ==
    \E r \in Reqs :
        /\ Answered(r)
        /\ "interests" \in loc[r].failed
        /\ loc[r].response.status = 200
        /\ Len(loc[r].response.articles) > 0

\* C12: whatever the page and limit parameters are (absent, empty, numeric,
\* out of range, not a number), the page and limit the handler works with
\* are integers with page >= 1 and 1 <= limit <= 100.
C12_PaginationCoerced ==
    \A r \in Reqs :
        Loaded(r) =>
           /\ ~loc[r].page.nan /\ loc[r].page.v >= 1
           /\ ~loc[r].limit.nan /\ loc[r].limit.v >= 1 /\ loc[r].limit.v <= MaxLimit

\* a request whose token resolved to a user and whose minSentiment or maxAge
\* parameter is not a number
Malformed(q) ==
    /\ q.method = "GET"
    /\ verifySupabaseToken(q.auth).some /\ verifySupabaseToken(q.auth).val # ""
    /\ MinSentimentInvalid(q.minSentiment) \/ MaxAgeInvalid(q.maxAge)

\* C13: a request with a malformed minSentiment or maxAge is rejected before
\* any fetch or cache access, with status 400 and a message that names the
\* parameter; a well-formed value is only clamped, maxAge into [1,720] and
\* minSentiment into [-1,1].
C13_ValidationRejected ==
    \A r \in Reqs :
        /\ (pc[r] # "idle" /\ pc[r] # "verify" /\ Malformed(loc[r].req)) =>
              /\ pc[r] = "responded"
              /\ loc[r].fetchPromises = <<>>
              /\ loc[r].cacheStats = IdleLoc.cacheStats
              /\ loc[r].response.status = 400
              /\ loc[r].response.message \in {MsgMinSentiment, MsgMaxAge}
        /\ Loaded(r) =>
              /\ ~loc[r].maxAge.nan /\ loc[r].maxAge.v >= 1 /\ loc[r].maxAge.v <= MaxMaxAge
              /\ loc[r].minSentiment.some =>
                    /\ ~loc[r].minSentiment.val.nan
                    /\ loc[r].minSentiment.val.v >= -100
                    /\ loc[r].minSentiment.val.v <= 100

\* a request carrying a token that does not resolve to a user identifier:
\* the verification throws, or the user it returns has no id
Unresolved(q) ==
    /\ q.method = "GET"
    /\ q.auth # "none"
    /\ ~verifySupabaseToken(q.auth).some \/ verifySupabaseToken(q.auth).val = ""

\* C14: a request whose token does not resolve to a user identifier is
\* answered 401, and nothing is fetched or written to the cache for it.
C14_Unauthorized ==
    \A r \in Reqs :
        (pc[r] # "idle" /\ pc[r] # "verify" /\ Unresolved(loc[r].req)) =>
           /\ pc[r] = "responded"
           /\ loc[r].response.status = 401
           /\ loc[r].fetchPromises = <<>>
           /\ cache = << >>

----------------------------------------------------------------------------
(* Freshness of the article pool, checked on SpecSeq *)

\* C15: for a request with maxAge = H, no article older than H hours when
\* the request arrived reaches scoring or the response, also when the pool
\* comes from the cache.  The request's cutoff is its arrival hour minus H,
\* so an article is too old exactly when it was published before the cutoff.
C15_MaxAgeRespected ==
    \A r \in Reqs :
        Ranked(r) =>
           /\ \A i \in 1..Len(loc[r].rankInput.articles) :
                 loc[r].rankInput.articles[i].published_at >= loc[r].cutoff
           /\ pc[r] = "responded" =>
                 \A i \in 1..Len(loc[r].response.articles) :
                    loc[r].response.articles[i].published_at >= loc[r].cutoff

----------------------------------------------------------------------------
(* Pagination edge and bookmark enrichment, checked on SpecOne *)

\* the page of the request starts at or after the end of the ranked list
PageBeyondData(l) ==
    /\ ~l.page.nan /\ ~l.limit.nan
    /\ (l.page.v - 1) * l.limit.v >= Len(l.rankedArticles)

\* C16: a request whose page lies beyond the available data answers 200 with
\* an empty article list and hasMore = false, and issues no bookmark fetch.
C16_PageBeyondData ==
    \A r \in Reqs :
        (Ranked(r) /\ PageBeyondData(loc[r])) =>
           /\ pc[r] = "responded"
           /\ loc[r].response.status = 200
           /\ loc[r].response.articles = <<>>
           /\ ~loc[r].response.pagination.hasMore
           /\ loc[r].response.pagination.total = Len(loc[r].rankedArticles)
           /\ loc[r].bookmarkQuery = None
           /\ "bookmarks" \notin loc[r].failed

\* C16 witness: bookmarks were asked for, the ranked list is not empty and
\* the page lies beyond it
C16_Witness ==
    \E r \in Reqs :
        /\ pc[r] = "responded" /\ loc[r].response.status = 200
        /\ PageBeyondData(loc[r])
        /\ loc[r].includeBookmarks
        /\ Len(loc[r].rankedArticles) > 0

\* the set fetchUserBookmarks returned to the request
ReturnedBookmarks(l) ==
    fetchUserBookmarks(l.userId, l.bookmarkQuery.val, "bookmarks" \notin l.failed)

\* C17: the bookmark fetch is issued exactly when includeBookmarks is true
\* and the page is not empty; it is given the ids of the page's articles and
\* no other; and an article is flagged is_bookmarked exactly when its id is
\* in the set the fetch returned (never when no fetch was issued).
C17_BookmarksOfPage ==
    \A r \in Reqs :
        Ranked(r) =>
           LET l == loc[r]
           IN /\ l.bookmarkQuery.some <=> (l.includeBookmarks /\ Len(l.paginatedArticles) > 0)
              /\ l.bookmarkQuery.some =>
                    /\ l.bookmarkQuery.val = Ids(l.paginatedArticles)
                    /\ Len(l.bookmarkQuery.val) <= Len(l.rankedArticles)
                    /\ (~l.limit.nan) => Len(l.bookmarkQuery.val) <= l.limit.v
              /\ pc[r] = "responded" =>
                    \A i \in 1..Len(l.response.articles) :
                       l.response.articles[i].is_bookmarked <=>
                          /\ l.bookmarkQuery.some
                          /\ l.response.articles[i].id \in ReturnedBookmarks(l)

\* C17 witness: a page shorter than the ranked list was enriched and one of
\* its articles is bookmarked
C17_Witness ==
    \E r \in Reqs :
        /\ pc[r] = "responded" /\ loc[r].response.status = 200
        /\ loc[r].bookmarkQuery.some
        /\ Len(loc[r].paginatedArticles) < Len(loc[r].rankedArticles)
        /\ \E i \in 1..Len(loc[r].response.articles) : loc[r].response.articles[i].is_bookmarked
        /\ \E i \in 1..Len(loc[r].rankedArticles) :
              loc[r].rankedArticles[i].id \notin Range(loc[r].bookmarkQuery.val)

----------------------------------------------------------------------------
(* SpecKey: two requests in sequence, over users, pages, sort modes and *)
(* filter triples                                                       *)

\* limit, maxAge and minSentiment parameters giving five different triples
TripleParams ==
    { <<RawNum(100), RawAbsent, RawAbsent>>,
      <<RawNum(200), RawAbsent, RawAbsent>>,
      <<RawNum(100), RawNum(200), RawAbsent>>,
      <<RawNum(100), RawAbsent, RawNum(0)>>,
      <<RawText, RawAbsent, RawAbsent>> }

QueriesKey ==
    { Query("GET", auth, page, t[1], sortBy, "false", t[3], t[2]) :
        auth \in Users, page \in {RawAbsent, RawNum(200)},
        sortBy \in {"relevance", "latest"}, t \in TripleParams }
    \cup { Query("GET", "u1", RawAbsent, RawNum(100), "latest", "true", RawAbsent, RawAbsent) }

InitKey == InitOver({TableSeq})

\* what the first request can be
QueriesKeyFirst ==
    { Query("GET", "u1", RawAbsent, RawNum(100), sortBy, "false", minSentiment, RawAbsent) :
        sortBy \in {"relevance", "latest"}, minSentiment \in {RawAbsent, RawNum(0)} }

NextKey ==
    \/ \E q \in QueriesKeyFirst : ReceiveSeq(1, q)
    \/ \E r \in Reqs \ {1}, q \in QueriesKey : ReceiveSeq(r, q)
    \/ \E r \in Reqs : Handle(r)

SpecKey == InitKey /\ [][NextKey]_vars

\* the triples the handler can build
Triples ==
    { NewsFilters(limit, maxAge, minSentiment) :
        limit \in {NaN, Num(1), Num(2), Num(20), Num(100)},
        maxAge \in {Num(1), Num(2), Num(DefaultMaxAge), Num(MaxMaxAge)},
        minSentiment \in {None, Some(Num(-100)), Some(Num(0)), Some(Num(5)), Some(Num(50)), Some(Num(100))} }

\* equal triples have equal keys and different triples different keys
KeysDistinguishTriples ==
    \A f, g \in Triples : (ArticlesKey(f) = ArticlesKey(g)) <=> (f = g)

\* the request fetched the article pool itself (a cache miss)
MissedArticles(l) == "articles" \in Range(l.fetchPromises)

\* C18: the article cache key is a pure function of the triple (pool limit,
\* maxAge, minSentiment): equal triples give equal keys and different
\* triples different keys.  A request that follows a finished one with an
\* equal triple is served the entry the first one wrote, whatever the user,
\* page and sort mode of the two; with a different triple it misses, fetches
\* and writes an entry of its own.
C18_ArticleKeyOfTriple ==
    /\ KeysDistinguishTriples
    /\ \A r \in Reqs : Loaded(r) => loc[r].newsFilters \in Triples
    /\ \A r1, r2 \in Reqs :
          (r1 < r2 /\ Ranked(r1) /\ Loaded(r2)) =>
             LET l1 == loc[r1]
                 l2 == loc[r2]
             IN /\ ArticlesKey(l1.newsFilters) \in DOMAIN cache
                /\ (l1.newsFilters = l2.newsFilters) =>
                      /\ ~MissedArticles(l2)
                      /\ l2.articles = l1.articles
                      /\ cache[ArticlesKey(l2.newsFilters)] = l1.articles.val
                /\ (l1.newsFilters # l2.newsFilters) =>
                      /\ MissedArticles(l2)
                      /\ cache[ArticlesKey(l1.newsFilters)] = l1.articles.val
                      /\ "articles" \notin l2.pending =>
                            /\ l2.articles # l1.articles
                            /\ cache[ArticlesKey(l2.newsFilters)] = l2.articles.val

\* C18 witness: the second request differs from the first in user, page and
\* sort mode, has the same triple and was served the first one's entry
C18_Witness ==
    \E r1, r2 \in Reqs :
        /\ r1 < r2 /\ Ranked(r1) /\ Ranked(r2)
        /\ loc[r1].userId # loc[r2].userId
        /\ loc[r1].page # loc[r2].page
        /\ loc[r1].sortBy # loc[r2].sortBy
        /\ loc[r1].newsFilters = loc[r2].newsFilters
        /\ ~MissedArticles(loc[r2])

----------------------------------------------------------------------------
(* Expiry and optionality of the cache, checked on SpecSeq *)

\* the hour at which the request read the cache (cutoff = hour - maxAge)
ArrivalHour(l) == l.cutoff + l.maxAge.v

\* C19: application-level cache entries expire, interests and portfolio
\* after 30 minutes and the article pool after 5 minutes.  A request that
\* arrives an hour or more after an earlier request filled the cache is not
\* served those entries: it fetches interests, portfolio and articles again.
C19_EntriesExpire ==
    \A r1, r2 \in Reqs :
        ( /\ r1 < r2 /\ Ranked(r1) /\ Loaded(r2)
          /\ ArrivalHour(loc[r2]) >= loc[r1].fetchedAt + 1 ) =>
            /\ loc[r1].userId = loc[r2].userId =>
                  /\ "interests" \in Range(loc[r2].fetchPromises)
                  /\ "portfolio" \in Range(loc[r2].fetchPromises)
            /\ loc[r1].newsFilters = loc[r2].newsFilters =>
                  "articles" \in Range(loc[r2].fetchPromises)

\* what a handler that always fetches hands to ranking for the request, the
\* store answering its queries: the accessors' results at the request's arrival
FreshInterests(l) == fetchUserInterests(l.userId, TRUE)
FreshPortfolio(l) == fetchUserPortfolio(l.userId, TRUE)
FreshArticles(l) == fetchNewsArticles(newsTable, l.newsFilters, l.cutoff, TRUE)

\* the result position of a promise holds what the then-callback assigned
MissResolved(l, kind, value) ==
    (kind \in Range(l.fetchPromises)) =>
        l.results[IndexOf(l.fetchPromises, kind)] = value

\* C20: the cache is only an optimization.  For every request whose own
\* store queries were all answered, the interests, portfolio and article
\* pool handed to ranking are those a handler without the cache would hand
\* to it; and every cache miss is resolved by calling the accessor, whose
\* result is the value ranked.
C20_CacheOptional ==
    \A r \in Reqs :
        Ranked(r) =>
           LET l == loc[r]
           IN /\ MissResolved(l, "interests", l.userInterests)
              /\ MissResolved(l, "portfolio", l.userPortfolio)
              /\ MissResolved(l, "articles", l.articles)
              /\ l.failed \cap {"interests", "portfolio", "articles"} = {} =>
                    /\ l.rankInput.userInterests = FreshInterests(l)
                    /\ l.rankInput.userPortfolio = FreshPortfolio(l)
                    /\ l.rankInput.articles \in FreshArticles(l)

----------------------------------------------------------------------------
(* Cache statistics, checked on SpecCache *)

\* the keys set so far, from the record of the sets
KeysSetSoFar ==
    { InterestsKey(u) : u \in { x \in Users : lastSet.interests[x].some } }
    \cup { PortfolioKey(u) : u \in { x \in Users : lastSet.portfolio[x].some } }
    \cup { ArticlesKey(f) : f \in DOMAIN lastSet.articles }

\* a cache holding maxSize entries
FullCache == [k \in { "k" \o ToString(i) : i \in 1..CacheMaxSize } |-> Rows(<<>>)]

\* a set on a full cache is carried out: the size exceeds maxSize and every
\* earlier entry is still there
SetBeyondCapacity ==
    LET c == cacheUserInterests(FullCache, "u1", Rows(<<>>))
    IN /\ getCacheStats(FullCache).size = getCacheStats(FullCache).maxSize
       /\ getCacheStats(c).size = getCacheStats(c).maxSize + 1
       /\ DOMAIN FullCache \subseteq DOMAIN c
       /\ getCachedUserInterests(c, "u1") = Some(Rows(<<>>))

----------------------------------------------------------------------------
(* The ranking pass as the handler runs it, checked on SpecOne *)

\* C22: after a relevance-mode ranking pass, algorithmsUsed names the
\* scoring components that were exercised: keywordMatch is listed exactly
\* when the user has interests and symbolMatch exactly when the portfolio
\* is not empty.
C22_AlgorithmsUsed ==
    \A r \in Reqs :
        (Ranked(r) /\ loc[r].scored) =>
           /\ ("keywordMatch" \in Range(loc[r].algorithmsUsed))
                 <=> (loc[r].rankInput.userInterests # <<>>)
           /\ ("symbolMatch" \in Range(loc[r].algorithmsUsed))
                 <=> (loc[r].rankInput.userPortfolio # <<>>)

----------------------------------------------------------------------------
(* rankAndFilterArticles without a threshold, checked on SpecRank *)

\* the call filters nothing by the claim's premise: the threshold is 0, or
\* the user has neither interests nor portfolio
NothingToFilter ==
    \/ rk.minRelevanceScore = 0
    \/ rk.userInterests = <<>> /\ rk.userPortfolio = <<>>

\* C23: with minRelevanceScore = 0, and likewise with empty interests and
\* portfolio, rankAndFilterArticles returns every input article exactly once:
\* the output ids are a permutation of the input ids, every output article
\* carries a relevance_score, and the input array and its records are as
\* they were before the call.
C23_RankKeepsAll ==
    (rk.out1.some /\ NothingToFilter) =>
        /\ Len(rk.out1.val) = Len(rk.articles)
        /\ \E p \in Perms(1..Len(rk.articles)) :
              \A i \in 1..Len(rk.articles) : rk.out1.val[i].id = rk.articles[p[i]].id
        /\ \A i \in 1..Len(rk.out1.val) : rk.out1.val[i].relevance_score.some
        /\ \A i \in 1..Len(rk.articles) :
              /\ rk.articles[i].relevance_score = None
              /\ \E j \in 1..Len(rk.out1.val) :
                    rk.out1.val[j] = [rk.articles[i] EXCEPT
                                         !.relevance_score = rk.out1.val[j].relevance_score]

C23_Witness ==
    /\ rk.out1.some
    /\ rk.minRelevanceScore = 0
    /\ rk.userInterests = <<>> /\ rk.userPortfolio = <<>>
    /\ Len(rk.articles) = 2
    /\ rk.out1.val[1].id = rk.articles[2].id
    /\ rk.out1.val[2].id = rk.articles[1].id


\* C24: the X-Cache-Status of a successful response is HIT exactly when the
\* interests, the portfolio and the article pool were all read from the cache
\* by that request, and MISS when at least one of them was fetched during it.
C24_CacheStatusHeader ==
    \A r \in Reqs :
        (pc[r] = "responded" /\ loc[r].response.status = 200) =>
            (loc[r].response.cacheStatus = "HIT"
                <=> Range(loc[r].fetchPromises) = {"history"})

----------------------------------------------------------------------------
(* Entries written after a store error, checked on Spec *)

\* the request fetched this kind and the store answered with an error
FetchFailed(r, kind) == kind \in loc[r].failed /\ kind \notin loc[r].pending

\* the request fetched this kind and the store answered with data
FetchSucceeded(r, kind) ==
    /\ Loaded(r)
    /\ kind \in Range(loc[r].fetchPromises)
    /\ kind \notin loc[r].pending
    /\ kind \notin loc[r].failed

----------------------------------------------------------------------------
(* Cached values under the handler's reads, checked on SpecOne *)

\* C26: handling a request never modifies a value already stored in the
\* cache.  Every article array keeps the content and the element order it
\* was stored with, the in-place sort of the latest mode included, and a
\* cached entry changes only by a set that replaces it.
C26_CachedValuesUntouched ==
    [][ /\ \A i \in 1..Len(heap) : heap'[i] = heap[i]
        /\ \A k \in DOMAIN cache :
              /\ k \in DOMAIN cache'
              /\ cache'[k] = cache[k] \/ lastSet' # lastSet ]_vars

\* C26 witness: a latest-mode request sorted in place the cached array, which
\* holds two articles of one publication time in the order the store chose
C26_Witness ==
    \E r \in Reqs :
        /\ Ranked(r)
        /\ loc[r].sortBy = "latest"
        /\ getCachedNewsArticles(cache, loc[r].newsFilters) = loc[r].articles
        /\ LET a == heap[loc[r].articles.val.ref]
           IN /\ Len(a) = 3
              /\ a[1].published_at = a[2].published_at
              /\ a[1].id = "a2" /\ a[2].id = "a1"

----------------------------------------------------------------------------
(* Requests of two users interleaved, checked on Spec *)

\* C27: per-user isolation of the cache.  Over every interleaving of the
\* requests of different users, the interests and the portfolio a request is
\* ranked with are lists fetched for its own user: every row is a row of
\* that user, and neither an entry of another user nor an article array is
\* ever returned in their place.
C27_UserIsolation ==
    \A r \in Reqs :
        (Loaded(r) /\ loc[r].userInterests.some =>
            /\ loc[r].userInterests.val \in InterestsValues(loc[r].userId)
            /\ \A i \in 1..Len(loc[r].userInterests.val.rows) :
                  loc[r].userInterests.val.rows[i].user_id = loc[r].userId)
        /\ (Loaded(r) /\ loc[r].userPortfolio.some =>
            /\ loc[r].userPortfolio.val \in PortfolioValues(loc[r].userId)
            /\ \A i \in 1..Len(loc[r].userPortfolio.val.rows) :
                  loc[r].userPortfolio.val.rows[i].user_id = loc[r].userId)
        /\ (Ranked(r) =>
            /\ Rows(loc[r].rankInput.userInterests) \in InterestsValues(loc[r].userId)
            /\ Rows(loc[r].rankInput.userPortfolio) \in PortfolioValues(loc[r].userId)
            /\ \A i \in 1..Len(loc[r].rankInput.userInterests) :
                  loc[r].rankInput.userInterests[i].user_id = loc[r].userId
            /\ \A i \in 1..Len(loc[r].rankInput.userPortfolio) :
                  loc[r].rankInput.userPortfolio[i].user_id = loc[r].userId)

\* C27 witness: the second user's request read the cache when it held the
\* first user's three entries, and both were ranked with their own interests
C27_Witness ==
    \E a, b \in Reqs :
        /\ Ranked(a) /\ Ranked(b)
        /\ loc[a].userId = "u1" /\ loc[b].userId = "u2"
        /\ loc[b].cacheStats.size = 3
        /\ loc[a].rankInput.userInterests = user_interests["u1"]
        /\ loc[a].rankInput.userPortfolio = user_portfolio["u1"]
        /\ loc[b].rankInput.userInterests = user_interests["u2"]
        /\ loc[b].rankInput.userPortfolio = <<>>


\* the interests, portfolio and articles fetches a request issued: the
\* complement of what it found in the cache
Missed(r) == Range(loc[r].fetchPromises) \ {"history"}

\* C28: in each of the eight hit and miss combinations of interests,
\* portfolio and articles, the history handed to ranking is what this
\* request's own history fetch resolved to (the user's history rows, or the
\* empty list after a store error), never the result of the interests, the
\* portfolio or the articles fetch.
C28_HistoryIsOwnFetch ==
    \A r \in Reqs :
        Ranked(r) =>
           /\ Missed(r) \in SUBSET {"interests", "portfolio", "articles"}
           /\ loc[r].rankInput.userHistory =
                 Some(Rows(fetchUserNewsHistory(loc[r].userId, "history" \notin loc[r].failed)))
           /\ \A i \in 1..Len(loc[r].rankInput.userHistory.val.rows) :
                 LET row == loc[r].rankInput.userHistory.val.rows[i]
                 IN row.user_id = loc[r].userId /\ "article_id" \in DOMAIN row

\* C28 witness: interests and articles came from the cache, the portfolio
\* was fetched, so two results were awaited and the history is the second
C28_Witness ==
    \E r \in Reqs :
        /\ Ranked(r)
        /\ loc[r].fetchPromises = <<"portfolio", "history">>
        /\ loc[r].rankInput.userHistory = Some(Rows(user_news_history[loc[r].userId]))
        /\ loc[r].rankInput.userPortfolio # <<>>

----------------------------------------------------------------------------
(* SpecPool: one request against a store with more rows than the pool takes *)

PoolRows == 11

PoolTable == { NewsRow("a" \o ToString(i), i, "neutral", TRUE) : i \in 1..PoolRows }

QueriesPool ==
    { Query("GET", "u1", page, limit, sortBy, "true", RawAbsent, RawAbsent) :
        page \in {RawAbsent, RawNum(1100), RawNum(1200)},
        limit \in {RawNum(100), RawText},
        sortBy \in {"relevance", "latest"} }

InitPool == InitOver({PoolTable})

NextPool ==
    \/ \E q \in QueriesPool : Receive(1, q)
    \/ Handle(1)

SpecPool == InitPool /\ [][NextPool]_vars

\* C29: in every successful response pagination.total is at most
\* min(500, 10 * limit), the limit the pool was fetched with, and every page
\* numbered above 10 is empty with hasMore = false.
C29_PoolBound ==
    \A r \in Reqs :
        (pc[r] = "responded" /\ loc[r].response.status = 200) =>
            LET p == loc[r].response.pagination
            IN /\ ~p.limit.nan
               /\ p.total <= Min(PoolCap, PoolFactor * p.limit.v)
               /\ (~p.page.nan /\ p.page.v > 10) =>
                     loc[r].response.articles = <<>> /\ ~p.hasMore

----------------------------------------------------------------------------
(* api/keywords/route.ts: the POST handler addInterest.  The rate limiter  *)
(* of authenticateAndGetUser allows 50 requests a minute and is never      *)
(* reached by the requests of SpecInterest.                                *)

MaxCategoryLength == 100
MinPriority == 1
MaxPriority == 5
DefaultPriority == 1

MsgAuthRequired == "Authentication required for interest management"
MsgCategoryRequired == "Interest category is required"
MsgCategoryLength == "Interest category must be less than 100 characters"
MsgPriority == "Priority level must be between 1 and 5"
MsgExists == "Interest category already exists"
MsgInsert == "Failed to add interest"

\* lines 410-423: the user of the token; a failed verification is swallowed
\* and the request goes on as anonymous
authenticateAndGetUser(auth) ==
    LET user == verifySupabaseToken(auth)
    IN IF auth # "none" /\ user.some /\ user.val # "" THEN Some(user.val) ELSE None

\* a request body: the category (absent, or a string) and the priority level
Body(interest_category, priority_level) ==
    [interest_category |-> interest_category, priority_level |-> priority_level]

\* lines 161-171: the message of the validation error thrown, "" when none
ValidateBody(body) ==
    IF ~body.interest_category.some \/ Len(Trim(body.interest_category.val)) = 0
    THEN MsgCategoryRequired
    ELSE IF Len(body.interest_category.val) > MaxCategoryLength
    THEN MsgCategoryLength
    ELSE IF /\ body.priority_level.some /\ body.priority_level.val # 0
            /\ (body.priority_level.val < MinPriority \/ body.priority_level.val > MaxPriority)
    THEN MsgPriority
    ELSE ""

\* the error travels through withErrorHandling
PostFail(r, message) ==
    kw' = [kw EXCEPT !.pc[r] = "responded",
                     !.loc[r].status = StatusOf(message),
                     !.loc[r].thrown = message,
                     !.loc[r].message = ResponseMessage(message)]

\* lines 434-436 and 152-179: authentication, body validation, and the
\* query for an existing row of the category is sent
PostReceive(r, auth, body) ==
    /\ kw.pc[r] = "idle"
    /\ LET userId == authenticateAndGetUser(auth)
       IN IF ~userId.some THEN PostFail(r, MsgAuthRequired)
          ELSE IF ValidateBody(body) # "" THEN PostFail(r, ValidateBody(body))
          ELSE kw' = [kw EXCEPT !.pc[r] = "existing",
                                !.loc[r].userId = userId,
                                !.loc[r].category = Trim(body.interest_category.val),
                                !.loc[r].priority = body.priority_level]
    /\ UNCHANGED <<cache, heap, pc, loc, now, newsTable, storeErrors, lastSet, lastOp, rk>>

\* the rows of the user with the category, as the store holds them now
ExistingRows(rows, userId, category) ==
    { i \in 1..Len(rows) : rows[i].user_id = userId /\ rows[i].interest_category = category }

\* lines 175-183: the existence query resolves; its error is not read, and
\* data is null then.  The insert is sent when no row was reported.
ExistingResolved(r, ok) ==
    /\ kw.pc[r] = "existing"
    /\ StoreQuery(ok)
    /\ LET l == kw.loc[r]
           existing == IF ok THEN Cardinality(ExistingRows(kw.rows, l.userId.val, l.category))
                       ELSE 0
       IN IF existing > 0
          THEN kw' = [kw EXCEPT !.pc[r] = "responded",
                                !.loc[r].existing = existing,
                                !.loc[r].status = StatusOf(MsgExists),
                                !.loc[r].thrown = MsgExists,
                                !.loc[r].message = ResponseMessage(MsgExists)]
          ELSE kw' = [kw EXCEPT !.pc[r] = "insert", !.loc[r].failed = ~ok]
    /\ UNCHANGED <<cache, heap, pc, loc, now, newsTable, lastSet, lastOp, rk>>

\* lines 186-199 and 215-234: the insert resolves, with the row or an error
InsertResolved(r, ok) ==
    /\ kw.pc[r] = "insert"
    /\ StoreQuery(ok)
    /\ LET l == kw.loc[r]
           row == [user_id |-> l.userId.val,
                   interest_category |-> l.category,
                   priority_level |-> IF l.priority.some /\ l.priority.val # 0
                                      THEN l.priority.val ELSE DefaultPriority]
       IN IF ok
          THEN kw' = [kw EXCEPT !.rows = Append(@, row),
                                !.pc[r] = "responded",
                                !.loc[r].status = 201]
          ELSE PostFail(r, MsgInsert)
    /\ UNCHANGED <<cache, heap, pc, loc, now, newsTable, lastSet, lastOp, rk>>

----------------------------------------------------------------------------
(* SpecInterest: POST requests served concurrently *)

Blank == <<" ">>

Categories ==
    { None, Some(<<>>), Some(Blank), Some(Tech), Some(Blank \o Tech \o Blank), Some(Energy),
      Some([i \in 1..(MaxCategoryLength + 1) |-> "x"]) }

Bodies == { Body(c, p) : c \in Categories, p \in {None, Some(0), Some(3), Some(9)} }

NextInterest ==
    \E r \in Reqs :
        \/ \E auth \in {"u1", "u2", "bad", "none"}, body \in Bodies : PostReceive(r, auth, body)
        \/ \E ok \in BOOLEAN : ExistingResolved(r, ok)
        \/ \E ok \in BOOLEAN : InsertResolved(r, ok)

SpecInterest == Init /\ [][NextInterest]_vars

\* C30: after any sequence of add-interest requests, interleaved or not, a
\* user has at most one stored interest per interest_category: a request for
\* a category that exists is rejected with 'Interest category already
\* exists' and inserts nothing.
C30_OneInterestPerCategory ==
    /\ \A i, j \in 1..Len(kw.rows) :
          (kw.rows[i].user_id = kw.rows[j].user_id
             /\ kw.rows[i].interest_category = kw.rows[j].interest_category) => i = j
    /\ \A r \in Reqs :
          (kw.pc[r] = "responded" /\ kw.loc[r].existing > 0) =>
              kw.loc[r].thrown = MsgExists /\ kw.loc[r].status # 201

====
